---- MODULE Spec2Model ----
(***************************************************************************)
(* Model of the Isaac Sim 5.0 Python bindings: the orchestrator            *)
(* IsaacSimEnvironment (environment.py) and the three subsystems it owns,  *)
(* SimulationApp (simulation_app.py), WebRTCClient (webrtc_client.py) and  *)
(* RESTClient (rest_client.py).                                            *)
(*                                                                         *)
(* Every method is an operator from a state record and the outcomes of    *)
(* the external calls it makes (process launch, socket open/close, HTTP    *)
(* response, ...) to a result record: the state it leaves, the value it    *)
(* returns and whether it raised.  An action is one call of a public       *)
(* orchestrator method, with the external outcomes chosen by \E.           *)
(***************************************************************************)
EXTENDS Integers, Sequences, FiniteSets, TLC

\* Bound of the model: open transports that no session references any more.
MaxLeaked == 1
\* Bound of the model: inbound messages one run of the receive loop is followed for.
MaxMessages == 2
\* disconnect() calls of the control session suspended at the same time
MaxClosing == 2
\* live control sessions nothing refers to any more
MaxOrphaned == 1
\* connect() calls of the streaming session suspended at the same time
MaxConnecting == 2

\* The defaults of the constructors.
DefaultHost == "3.239.124.24"
DefaultWebrtcPort == 8211
DefaultRestPort == 3009

VARIABLES
    is_initialized,   \* IsaacSimEnvironment.is_initialized
    simulation_app,   \* SimulationApp: [is_running, process]
    webrtc_client,    \* WebRTCClient: [is_connected, websocket]
    rest_client,      \* RESTClient: [session]
    leaked,           \* open streaming transports no longer referenced
    connecting,       \* the connect() calls of the streaming session suspended in
                      \* websockets.connect()
    control,          \* control plane: [closing, orphaned], the disconnect() tasks suspended
                      \* in session.close() and the live sessions no longer referenced
    scope,            \* position relative to "async with env": outside or body
    config,           \* IsaacSimEnvironment.config, as given to the constructor
    consumers,        \* WebRTCClient: [on_frame_callback, on_audio_callback]
    loop,             \* the task running WebRTCClient.receive_messages(): [pc, transport, current]
    received,         \* history: the messages the receive loop has read, in order
    invoked,          \* history: the consumer invocations it has made, in order
    streaming,        \* StreamSession.streaming of the specification (the code has no such field)
    repeat,           \* history: the last two calls were both StreamingSession.start_streaming()
    op,               \* history: the last orchestrator method called
    ret,              \* history: what it returned, [v, dict]
    calls,            \* history: the subsystem and external calls it made, in order
    pre,              \* history: the program state before it
    status            \* history: the snapshot the last get_status() returned

vars == <<is_initialized, simulation_app, webrtc_client, rest_client, leaked,
          connecting, control, scope, config, consumers, loop, received, invoked, streaming, repeat,
          op, ret, calls, pre, status>>

----------------------------------------------------------------------------
\* Values

\* subprocess.Popen handle: no handle, a live child, a child that has exited
ProcessStates == {"None", "Alive", "Exited"}
\* websockets connection: no handle, an open transport, a transport closed by the peer
SocketStates == {"None", "Open", "Closed"}
\* aiohttp.ClientSession: no session, a live session, a closed session that
\* is still referenced (and still truthy)
SessionStates == {"None", "Open", "Closed"}
\* outcome of subprocess.Popen(...) followed by the poll() two seconds later
LaunchOutcomes == {"alive", "exited", "raise"}

\* A result dictionary of the control plane: its keys and the value under 'error'.
NoDict == [keys |-> {}, error |-> ""]
Payload == [keys |-> {"result"}, error |-> ""]
ErrorDict(reason) == [keys |-> {"error"}, error |-> reason]

\* The HTTP exchange as the remote end decides it: a status and a JSON body, or
\* a transport/decode exception with its text.
Responses ==
    { [exc |-> FALSE, status |-> 200, body |-> Payload, text |-> ""],
      [exc |-> FALSE, status |-> 200, body |-> ErrorDict("remote"), text |-> ""],
      [exc |-> FALSE, status |-> 500, body |-> NoDict, text |-> ""],
      [exc |-> TRUE, status |-> 0, body |-> NoDict, text |-> "Cannot connect to host"] }

\* str(e) of the exception a failing aiohttp.ClientSession() raises
SessionErrorText == "no running event loop"

\* `'error' in result`
HasError(d) == "error" \in d.keys

\* A configuration dictionary: the keys it has and the values under them (the
\* value under a key it does not have is never read).
NoSection == [keys |-> {}, webrtc_port |-> 0, rest_port |-> 0]
SimulationSections ==
    { [keys |-> k, webrtc_port |-> IF "webrtc_port" \in k THEN w ELSE 0,
                   rest_port |-> IF "rest_port" \in k THEN r ELSE 0] :
        k \in SUBSET {"webrtc_port", "rest_port"}, w \in {9000}, r \in {4000} }
Configs ==
    { [keys |-> k,
       host |-> IF "host" \in k THEN "localhost" ELSE "",
       webrtc_port |-> IF "webrtc_port" \in k THEN 9000 ELSE 0,
       rest_port |-> IF "rest_port" \in k THEN 4000 ELSE 0,
       simulation |-> IF "simulation" \in k THEN sim ELSE NoSection] :
        k \in SUBSET {"host", "webrtc_port", "rest_port", "simulation"},
        sim \in SimulationSections }
\* config=None, which `config or {}` turns into the empty dictionary
NoConfig == [keys |-> {}, host |-> "", webrtc_port |-> 0, rest_port |-> 0,
             simulation |-> NoSection]

\* d.get(key, default)
Get(d, key, default) == IF key \in d.keys THEN d[key] ELSE default

----------------------------------------------------------------------------
\* Plumbing: the state record the method operators work on, and their results.

Cur == [is_initialized |-> is_initialized,
        simulation_app |-> simulation_app,
        webrtc_client |-> webrtc_client,
        rest_client |-> rest_client,
        leaked |-> leaked,
        connecting |-> connecting,
        control |-> control,
        config |-> config,
        loop |-> loop,
        calls |-> <<>>]

Log(s, what) == [s EXCEPT !.calls = Append(@, what)]

\* return of a value
Return(s, v) == [s |-> s, v |-> v, dict |-> NoDict, exc |-> FALSE]
\* return of a dictionary
ReturnDict(s, d) == [s |-> s, v |-> "dict", dict |-> d, exc |-> FALSE]
\* return of a bool a caller branches on; the log keeps what it was
ReturnBool(s, name, v) == Return(Log(s, name \o "=" \o v), v)
\* an exception leaving the method
Raise(s) == [s |-> s, v |-> "raised", dict |-> NoDict, exc |-> TRUE]

----------------------------------------------------------------------------
\* SimulationApp

\* start() without the running guard and the pgrep probe
Mutant_start_always_launches(s0, ext, launch) ==
    LET l == Log(Log(s0, "sim.start"), "Popen") IN
    CASE launch = "raise" -> ReturnBool(Log(l, "raise"), "sim.start", "False")
      [] launch = "alive" ->
           ReturnBool([l EXCEPT !.simulation_app =
                           [is_running |-> TRUE, process |-> "Alive"]],
                      "sim.start", "True")
      [] OTHER ->
           ReturnBool([l EXCEPT !.simulation_app.process = "Exited"],
                      "sim.start", "False")

\* start() that launches once more when the launched process has exited at the probe
Mutant_start_retries(s0, ext, launch) ==
    LET s == Log(s0, "sim.start") IN
    IF s.simulation_app.is_running THEN ReturnBool(s, "sim.start", "True")
    ELSE IF ext
    THEN ReturnBool([s EXCEPT !.simulation_app.is_running = TRUE], "sim.start", "True")
    ELSE LET l == Log(s, "Popen") IN
         CASE launch = "raise" -> ReturnBool(Log(l, "raise"), "sim.start", "False")
           [] launch = "alive" ->
                ReturnBool([l EXCEPT !.simulation_app =
                                [is_running |-> TRUE, process |-> "Alive"]],
                           "sim.start", "True")
           [] OTHER ->
                ReturnBool([Log(l, "Popen") EXCEPT !.simulation_app =
                                [is_running |-> TRUE, process |-> "Alive"]],
                           "sim.start", "True")

\* ext: pgrep finds an instance; launch: what Popen and the probe give
SimulationApp_start(s0, ext, launch) ==
    LET s == Log(s0, "sim.start") IN
    IF s.simulation_app.is_running THEN ReturnBool(s, "sim.start", "True")
    ELSE IF ext
    THEN ReturnBool([s EXCEPT !.simulation_app.is_running = TRUE], "sim.start", "True")
    ELSE LET l == Log(s, "Popen") IN
         CASE launch = "raise" -> ReturnBool(Log(l, "raise"), "sim.start", "False")
           [] launch = "alive" ->
                ReturnBool([l EXCEPT !.simulation_app =
                                [is_running |-> TRUE, process |-> "Alive"]],
                           "sim.start", "True")
           [] OTHER ->
                ReturnBool([l EXCEPT !.simulation_app.process = "Exited"],
                           "sim.start", "False")

\* term: process.terminate() succeeds
SimulationApp_stop(s0, term) ==
    LET s == Log(s0, "sim.stop") IN
    IF s.simulation_app.process # "None"
    THEN LET t == Log(s, "terminate") IN
         IF term
         THEN Return([t EXCEPT !.simulation_app =
                          [is_running |-> FALSE, process |-> "None"]], "None")
         ELSE Raise(Log(t, "raise"))
    ELSE Return([s EXCEPT !.simulation_app.is_running = FALSE], "None")

\* restart(): stop(), a pause, start()
SimulationApp_restart(s0, term, ext, launch) ==
    LET a == SimulationApp_stop(Log(s0, "sim.restart"), term) IN
    IF a.exc THEN Raise(a.s) ELSE SimulationApp_start(a.s, ext, launch)

\* __enter__(): start(), whose result is dropped; returns self
SimulationApp_enter(s0, ext, launch) ==
    Return(SimulationApp_start(Log(s0, "sim.__enter__"), ext, launch).s, "self")

\* The fields SimulationApp.__init__ reads from the dictionary it is given.
SimulationApp_init(sim_config) ==
    [webrtc_port |-> Get(sim_config, "webrtc_port", DefaultWebrtcPort),
     rest_port |-> Get(sim_config, "rest_port", DefaultRestPort)]

\* _init_simulation_app: the SimulationApp is built from config['simulation']
IsaacSimEnvironment_init_simulation_app(cfg) ==
    SimulationApp_init(Get(cfg, "simulation", NoSection))

\* _init_clients: both clients are built from the top-level host and ports
IsaacSimEnvironment_init_clients(cfg) ==
    [webrtc_client |-> [host |-> Get(cfg, "host", DefaultHost),
                        port |-> Get(cfg, "webrtc_port", DefaultWebrtcPort)],
     rest_client |-> [host |-> Get(cfg, "host", DefaultHost),
                      port |-> Get(cfg, "rest_port", DefaultRestPort)]]

SimulationApp_get_status(s) ==
    [is_running |-> s.simulation_app.is_running,
     webrtc_port |-> IsaacSimEnvironment_init_simulation_app(s.config).webrtc_port,
     rest_port |-> IsaacSimEnvironment_init_simulation_app(s.config).rest_port,
     keys |-> {"is_running", "webrtc_port", "rest_port", "headless", "livestream"}
              \cup (IF s.simulation_app.process # "None"
                    THEN {"pid", "returncode"} ELSE {}),
     returncode |-> IF s.simulation_app.process = "Exited" THEN "code" ELSE "None"]

----------------------------------------------------------------------------
\* WebRTCClient

\* open: websockets.connect() succeeds
WebRTCClient_connect(s0, open) ==
    LET s == Log(Log(s0, "webrtc.connect"), "websockets.connect") IN
    IF open
    THEN ReturnBool([s EXCEPT !.webrtc_client =
                                  [is_connected |-> TRUE, websocket |-> "Open"],
                              !.leaked = IF s.webrtc_client.websocket = "Open"
                                         THEN @ + 1 ELSE @,
                              !.loop.current = FALSE],
                    "webrtc.connect", "True")
    ELSE ReturnBool([Log(s, "raise") EXCEPT !.webrtc_client.is_connected = FALSE],
                    "webrtc.connect", "False")

\* connect() up to its `await websockets.connect(...)`, where it is suspended
WebRTCClient_connect_suspend(s0) ==
    LET s == Log(Log(s0, "webrtc.connect"), "websockets.connect") IN
    Return([s EXCEPT !.connecting = @ + 1], "None")

\* connect() resumed: the assignment of the opened transport to self.websocket,
\* or the except clause
WebRTCClient_connect_resume(s0, open) ==
    LET s == Log(s0, "websockets.connect: resumed") IN
    IF open
    THEN ReturnBool([s EXCEPT !.webrtc_client =
                                  [is_connected |-> TRUE, websocket |-> "Open"],
                              !.leaked = IF s.webrtc_client.websocket = "Open"
                                         THEN @ + 1 ELSE @,
                              !.loop.current = FALSE,
                              !.connecting = @ - 1],
                    "webrtc.connect", "True")
    ELSE ReturnBool([Log(s, "raise") EXCEPT !.webrtc_client.is_connected = FALSE,
                                            !.connecting = @ - 1],
                    "webrtc.connect", "False")

\* disconnect() that closes the transport but keeps its handle
Mutant_disconnect_keeps_handle(s0, close) ==
    LET s == Log(s0, "webrtc.disconnect") IN
    IF s.webrtc_client.websocket # "None"
    THEN LET c == Log(s, "websocket.close") IN
         IF close
         THEN Return([c EXCEPT !.webrtc_client =
                          [is_connected |-> FALSE, websocket |-> "Closed"]], "None")
         ELSE Raise(Log(c, "raise"))
    ELSE Return([s EXCEPT !.webrtc_client.is_connected = FALSE], "None")

\* close: websocket.close() succeeds
WebRTCClient_disconnect(s0, close) ==
    LET s == Log(s0, "webrtc.disconnect") IN
    IF s.webrtc_client.websocket # "None"
    THEN LET c == Log(s, "websocket.close") IN
         IF close
         THEN Return([c EXCEPT !.webrtc_client =
                          [is_connected |-> FALSE, websocket |-> "None"],
                      !.loop = IF @.current
                               THEN [@ EXCEPT !.transport = "Closed", !.current = FALSE]
                               ELSE @], "None")
         ELSE Raise(Log(c, "raise"))
    ELSE Return([s EXCEPT !.webrtc_client.is_connected = FALSE], "None")

\* send: websocket.send() succeeds (it cannot on a transport the peer closed)
WebRTCClient_send_message(s0, message, send) ==
    LET s == Log(s0, "webrtc.send_message") IN
    IF ~s.webrtc_client.is_connected \/ s.webrtc_client.websocket = "None"
    THEN Return(s, "None")
    ELSE LET m == Log(s, message) IN
         IF send /\ s.webrtc_client.websocket = "Open"
         THEN Return(m, "None")
         ELSE Return(Log(m, "raise"), "None")

\* start_streaming() that goes on to send whatever connect() returned
Mutant_start_streaming_ignores_connect(s0, open, send) ==
    LET s == Log(s0, "webrtc.start_streaming")
        c == IF ~s.webrtc_client.is_connected
             THEN WebRTCClient_connect(s, open) ELSE Return(s, "True")
    IN  Return(WebRTCClient_send_message(c.s, "start_streaming", send).s, "True")

\* start_streaming() that returns false when the send failed
Mutant_start_streaming_reports_send_failure(s0, open, send) ==
    LET s == Log(s0, "webrtc.start_streaming")
        c == IF ~s.webrtc_client.is_connected
             THEN WebRTCClient_connect(s, open) ELSE Return(s, "True")
        m == WebRTCClient_send_message(c.s, "start_streaming", send).s
    IN  IF c.v = "False" THEN Return(c.s, "False")
        ELSE IF m.calls[Len(m.calls)] = "raise" THEN Return(m, "False")
        ELSE Return(m, "True")

WebRTCClient_start_streaming(s0, open, send) ==
    LET s == Log(s0, "webrtc.start_streaming")
        c == IF ~s.webrtc_client.is_connected
             THEN WebRTCClient_connect(s, open) ELSE Return(s, "True")
    IN  IF c.v = "False" THEN Return(c.s, "False")
        ELSE Return(WebRTCClient_send_message(c.s, "start_streaming", send).s, "True")

\* stop_streaming() that also closes the transport
Mutant_stop_streaming_disconnects(s0, send) ==
    LET s == Log(s0, "webrtc.stop_streaming") IN
    IF s.webrtc_client.is_connected
    THEN Return(WebRTCClient_disconnect(
                    WebRTCClient_send_message(s, "stop_streaming", send).s, TRUE).s, "None")
    ELSE Return(s, "None")

WebRTCClient_stop_streaming(s0, send) ==
    LET s == Log(s0, "webrtc.stop_streaming") IN
    IF s.webrtc_client.is_connected
    THEN Return(WebRTCClient_send_message(s, "stop_streaming", send).s, "None")
    ELSE Return(s, "None")

WebRTCClient_get_status(s) ==
    [is_connected |-> s.webrtc_client.is_connected,
     host |-> IsaacSimEnvironment_init_clients(s.config).webrtc_client.host,
     port |-> IsaacSimEnvironment_init_clients(s.config).webrtc_client.port,
     keys |-> {"is_connected", "host", "port", "base_url", "stream_url"}]

----------------------------------------------------------------------------
\* RESTClient

\* create: aiohttp.ClientSession() succeeds
RESTClient_connect(s0, create) ==
    LET s == Log(s0, "rest.connect") IN
    IF s.rest_client.session = "None"
    THEN LET c == Log(s, "ClientSession") IN
         IF create THEN Return([c EXCEPT !.rest_client.session = "Open"], "None")
         ELSE Raise(Log(c, "raise"))
    ELSE Return(s, "None")

\* close: session.close() succeeds
RESTClient_disconnect(s0, close) ==
    LET s == Log(s0, "rest.disconnect") IN
    IF s.rest_client.session # "None"
    THEN LET c == Log(s, "session.close") IN
         IF close THEN Return([c EXCEPT !.rest_client.session = "None"], "None")
         ELSE Raise(Log(c, "raise"))
    ELSE Return(s, "None")

\* disconnect() up to its `await self.session.close()`, where it is suspended:
\* the session is closed and the attribute still refers to it
RESTClient_disconnect_suspend(s0) ==
    LET s == Log(Log(s0, "rest.disconnect"), "session.close") IN
    Return([s EXCEPT !.rest_client.session = "Closed",
                     !.control.closing = @ + 1], "None")

\* disconnect() resumed after close(): `self.session = None`, whichever session
\* the attribute refers to by now
RESTClient_disconnect_resume(s0) ==
    LET s == Log(s0, "session = None") IN
    Return([s EXCEPT !.rest_client.session = "None",
                     !.control.closing = @ - 1,
                     !.control.orphaned = IF s0.rest_client.session = "Open"
                                          THEN @ + 1 ELSE @], "None")

\* str(e) of the RuntimeError a request on a closed ClientSession raises
ClosedErrorText == "Session is closed"

\* f'HTTP {response.status}'
HttpReason(code) == "HTTP " \o ToString(code)

\* resp: the exchange session.request() has with the remote end
RESTClient_make_request(s0, endpoint, create, resp) ==
    LET s == Log(s0, "rest.request")
        c == IF s.rest_client.session = "None"
             THEN RESTClient_connect(s, create) ELSE Return(s, "None")
    IN  IF c.exc THEN Raise(c.s)
        ELSE LET h == Log(c.s, endpoint) IN
             IF h.rest_client.session = "Closed"
             THEN ReturnDict(Log(h, "raise"), ErrorDict(ClosedErrorText))
             ELSE IF resp.exc THEN ReturnDict(Log(h, "raise"), ErrorDict(resp.text))
             ELSE LET g == Log(h, "status " \o ToString(resp.status)) IN
                  IF resp.status = 200 THEN ReturnDict(g, resp.body)
                  ELSE ReturnDict(g, ErrorDict(HttpReason(resp.status)))

RESTClient_get_status_info(s) ==
    [session_active |-> s.rest_client.session # "None",
     host |-> IsaacSimEnvironment_init_clients(s.config).rest_client.host,
     port |-> IsaacSimEnvironment_init_clients(s.config).rest_client.port,
     keys |-> {"host", "port", "base_url", "session_active"}]

----------------------------------------------------------------------------
\* IsaacSimEnvironment

\* initialize() going on to the connects after a failed process start
Mutant_initialize_ignores_start(s0, ext, launch, open, create) ==
    LET a == SimulationApp_start(s0, ext, launch)
        b == WebRTCClient_connect(a.s, open)
        c == RESTClient_connect(b.s, create)
    IN  IF c.exc THEN Return(c.s, "False")
        ELSE Return([c.s EXCEPT !.is_initialized = TRUE], "True")

\* initialize() without its try/except
Mutant_initialize_unguarded(s0, ext, launch, open, create) ==
    LET a == SimulationApp_start(s0, ext, launch) IN
    IF a.v = "False" THEN Return(a.s, "False")
    ELSE LET c == RESTClient_connect(WebRTCClient_connect(a.s, open).s, create) IN
         IF c.exc THEN Raise(c.s)
         ELSE Return([c.s EXCEPT !.is_initialized = TRUE], "True")

\* initialize() giving up when the streaming connect fails
Mutant_initialize_streaming_fatal(s0, ext, launch, open, create) ==
    LET a == SimulationApp_start(s0, ext, launch) IN
    IF a.v = "False" THEN Return(a.s, "False")
    ELSE LET b == WebRTCClient_connect(a.s, open) IN
         IF b.v = "False" THEN Return(b.s, "False")
         ELSE LET c == RESTClient_connect(b.s, create) IN
              IF c.exc THEN Return(c.s, "False")
              ELSE Return([c.s EXCEPT !.is_initialized = TRUE], "True")

\* initialize() connecting the control session before the streaming session
Mutant_initialize_control_first(s0, ext, launch, open, create) ==
    LET a == SimulationApp_start(s0, ext, launch) IN
    IF a.v = "False" THEN Return(a.s, "False")
    ELSE LET c == RESTClient_connect(a.s, create) IN
         IF c.exc THEN Return(c.s, "False")
         ELSE LET b == WebRTCClient_connect(c.s, open) IN
              Return([b.s EXCEPT !.is_initialized = TRUE], "True")

IsaacSimEnvironment_initialize(s0, ext, launch, open, create) ==
    LET a == SimulationApp_start(s0, ext, launch) IN
    IF a.exc THEN Return(a.s, "False")
    ELSE IF a.v = "False" THEN Return(a.s, "False")
    ELSE LET b == WebRTCClient_connect(a.s, open) IN
         IF b.exc THEN Return(b.s, "False")
         ELSE LET c == RESTClient_connect(b.s, create) IN
              IF c.exc THEN Return(c.s, "False")
              ELSE Return([c.s EXCEPT !.is_initialized = TRUE], "True")

\* cleanup() disconnecting the control session before the streaming session
Mutant_cleanup_control_first(s0, wclose, sclose, term) ==
    LET b == RESTClient_disconnect(s0, sclose) IN
    IF b.exc THEN Return(b.s, "None")
    ELSE LET a == WebRTCClient_disconnect(b.s, wclose) IN
         IF a.exc THEN Return(a.s, "None")
         ELSE LET c == SimulationApp_stop(a.s, term) IN
              IF c.exc THEN Return(c.s, "None")
              ELSE Return([c.s EXCEPT !.is_initialized = FALSE], "None")

IsaacSimEnvironment_cleanup(s0, wclose, sclose, term) ==
    LET a == WebRTCClient_disconnect(s0, wclose) IN
    IF a.exc THEN Return(a.s, "None")
    ELSE LET b == RESTClient_disconnect(a.s, sclose) IN
         IF b.exc THEN Return(b.s, "None")
         ELSE LET c == SimulationApp_stop(b.s, term) IN
              IF c.exc THEN Return(c.s, "None")
              ELSE Return([c.s EXCEPT !.is_initialized = FALSE], "None")

\* the typed wrappers of RESTClient used by the orchestrator
RESTClient_start_simulation(s, create, resp) ==
    RESTClient_make_request(s, "POST /simulation/start", create, resp)

RESTClient_stop_simulation(s, create, resp) ==
    RESTClient_make_request(s, "POST /simulation/stop", create, resp)

RESTClient_get_simulation_status(s, create, resp) ==
    RESTClient_make_request(s, "GET /simulation/status", create, resp)

\* try: result = await ...; return 'error' not in result; except Exception: return False
\* (the record keeps the dictionary the bool was made from)
BoolOfResult(q) ==
    IF q.exc THEN Return(q.s, "False")
    ELSE IF ~HasError(q.dict) THEN [Return(q.s, "True") EXCEPT !.dict = q.dict]
    ELSE [Return(q.s, "False") EXCEPT !.dict = q.dict]

\* start_simulation() without the lazy initialize()
Mutant_start_simulation_no_init(s0, ext, launch, open, create, resp) ==
    BoolOfResult(RESTClient_start_simulation(s0, create, resp))

IsaacSimEnvironment_start_simulation(s0, ext, launch, open, create, resp) ==
    LET i == IF ~s0.is_initialized
             THEN IsaacSimEnvironment_initialize(s0, ext, launch, open, create)
             ELSE Return(s0, "True")
    IN  IF i.v = "False" THEN Return(i.s, "False")
        ELSE BoolOfResult(RESTClient_start_simulation(i.s, create, resp))

IsaacSimEnvironment_stop_simulation(s0, create, resp) ==
    BoolOfResult(RESTClient_stop_simulation(s0, create, resp))

IsaacSimEnvironment_get_simulation_status(s0, create, resp) ==
    RESTClient_get_simulation_status(s0, create, resp)

IsaacSimEnvironment_start_streaming(s0, open, send) ==
    LET r == WebRTCClient_start_streaming(s0, open, send) IN
    IF r.exc THEN Return(r.s, "False") ELSE r

IsaacSimEnvironment_stop_streaming(s0, send) ==
    Return(WebRTCClient_stop_streaming(s0, send).s, "None")

\* get_status() fetching the simulation status whatever is_initialized is
Mutant_get_status_always_fetches(s0, create, resp) ==
    LET q == RESTClient_get_simulation_status(s0, create, resp) IN
    [s |-> q.s, v |-> "dict", dict |-> NoDict, exc |-> FALSE,
     status |-> [is_initialized |-> s0.is_initialized,
                 simulation_app |-> SimulationApp_get_status(s0),
                 webrtc_client |-> WebRTCClient_get_status(s0),
                 rest_client |-> RESTClient_get_status_info(s0),
                 keys |-> {"is_initialized", "simulation_app", "webrtc_client",
                           "rest_client", "simulation_status"},
                 simulation_status |->
                     IF q.exc THEN ErrorDict(SessionErrorText) ELSE q.dict]]

\* The dictionary get_status() builds: the three snapshots, taken first, and
\* 'simulation_status' when the environment is initialized.
IsaacSimEnvironment_get_status(s0, create, resp) ==
    LET base == [is_initialized |-> s0.is_initialized,
                 simulation_app |-> SimulationApp_get_status(s0),
                 webrtc_client |-> WebRTCClient_get_status(s0),
                 rest_client |-> RESTClient_get_status_info(s0),
                 keys |-> {"is_initialized", "simulation_app", "webrtc_client",
                           "rest_client"},
                 simulation_status |-> NoDict]
    IN  IF s0.is_initialized
        THEN LET q == IsaacSimEnvironment_get_simulation_status(s0, create, resp)
                 d == IF q.exc THEN ErrorDict(SessionErrorText) ELSE q.dict
             IN  [s |-> q.s, v |-> "dict", dict |-> NoDict, exc |-> FALSE,
                  status |-> [base EXCEPT !.keys = @ \cup {"simulation_status"},
                                          !.simulation_status = d]]
        ELSE [s |-> s0, v |-> "dict", dict |-> NoDict, exc |-> FALSE, status |-> base]

\* load_scene, create_entity, delete_entity: one request, turned into a bool
BoolRequests == {"load_scene", "create_entity", "delete_entity"}
\* get_scene_info, get_entities: one request, its result handed on as it is
RawRequests == {"get_simulation_status", "get_scene_info", "get_entities"}

Endpoint(method) ==
    CASE method = "load_scene" -> "POST /scene/load"
      [] method = "create_entity" -> "POST /entities/create"
      [] method = "delete_entity" -> "DELETE /entities/id"
      [] method = "get_scene_info" -> "GET /scene/info"
      [] method = "get_entities" -> "GET /entities"
      [] OTHER -> "GET /simulation/status"

IsaacSimEnvironment_bool_request(s0, method, create, resp) ==
    BoolOfResult(RESTClient_make_request(s0, Endpoint(method), create, resp))

IsaacSimEnvironment_raw_request(s0, method, create, resp) ==
    RESTClient_make_request(s0, Endpoint(method), create, resp)

\* async with: __aenter__ awaits initialize() and returns self whatever it gave
IsaacSimEnvironment_aenter(s0, ext, launch, open, create) ==
    Return(IsaacSimEnvironment_initialize(s0, ext, launch, open, create).s, "self")

\* async with: __aexit__ awaits cleanup() and returns None (the body's exception,
\* if any, goes on to the caller)
IsaacSimEnvironment_aexit(s0, wclose, sclose, term) ==
    Return(IsaacSimEnvironment_cleanup(s0, wclose, sclose, term).s, "None")

----------------------------------------------------------------------------
\* The state machine

\* The program state proper (without the history of the call in progress).
Core(s) == [is_initialized |-> s.is_initialized,
            simulation_app |-> s.simulation_app,
            webrtc_client |-> s.webrtc_client,
            rest_client |-> s.rest_client]

\* no get_status() result: the last call was another method
NoStatus == [is_initialized |-> FALSE,
             simulation_app |-> [is_running |-> FALSE, webrtc_port |-> 0, rest_port |-> 0,
                                 keys |-> {}, returncode |-> "None"],
             webrtc_client |-> [is_connected |-> FALSE, host |-> "", port |-> 0, keys |-> {}],
             rest_client |-> [session_active |-> FALSE, host |-> "", port |-> 0, keys |-> {}],
             keys |-> {},
             simulation_status |-> NoDict]

\* no receive_messages() task is running
IdleLoop == [pc |-> "idle", transport |-> "None", current |-> FALSE]

\* the call that ended in s made this subsystem or external call
Logged(s, what) == \E i \in DOMAIN s.calls : s.calls[i] = what

\* StreamSession.streaming as the specification's state machine moves it:
\* start_streaming() that returns true sets it, stop_streaming() and
\* disconnect() clear it, everything else leaves it.
StreamSession_streaming(s, old) ==
    IF Logged(s, "webrtc.start_streaming") THEN ~Logged(s, "webrtc.connect=False")
    ELSE IF Logged(s, "webrtc.stop_streaming") \/ Logged(s, "webrtc.disconnect") THEN FALSE
    ELSE old

\* websockets.connect() may succeed only while the model can count the result.
CanOpen(open) ==
    open => (webrtc_client.websocket # "Open" \/ leaked < MaxLeaked)

\* The call `name` ended as r.
Finish(name, r) ==
    /\ is_initialized' = r.s.is_initialized
    /\ simulation_app' = r.s.simulation_app
    /\ webrtc_client' = r.s.webrtc_client
    /\ rest_client' = r.s.rest_client
    /\ leaked' = r.s.leaked
    /\ connecting' = r.s.connecting
    /\ control' = r.s.control
    /\ calls' = r.s.calls
    /\ op' = name
    /\ ret' = [v |-> r.v, dict |-> r.dict]
    /\ pre' = Core(Cur)
    /\ status' = IF "status" \in DOMAIN r THEN r.status ELSE NoStatus
    /\ loop' = r.s.loop
    /\ streaming' = StreamSession_streaming(r.s, streaming)
    /\ repeat' = (name = "WebRTCClient.start_streaming" /\ op = name)
    /\ UNCHANGED <<config, consumers, received, invoked>>

\* The state the constructor leaves, for the configuration cfg.
Constructed(cfg) ==
    /\ config = cfg
    /\ consumers = [on_frame_callback |-> "None", on_audio_callback |-> "None"]
    /\ loop = IdleLoop
    /\ received = <<>>
    /\ invoked = <<>>
    /\ streaming = FALSE
    /\ repeat = FALSE
    /\ is_initialized = FALSE
    /\ simulation_app = [is_running |-> FALSE, process |-> "None"]
    /\ webrtc_client = [is_connected |-> FALSE, websocket |-> "None"]
    /\ rest_client = [session |-> "None"]
    /\ leaked = 0
    /\ connecting = 0
    /\ control = [closing |-> 0, orphaned |-> 0]
    /\ scope = "outside"
    /\ op = "__init__"
    /\ ret = [v |-> "None", dict |-> NoDict]
    /\ calls = <<>>
    /\ pre = Core(Cur)
    /\ status = NoStatus

\* IsaacSimEnvironment() with no configuration
Init == Constructed(NoConfig)

\* IsaacSimEnvironment(config) for each configuration of the model
InitConfig == \E cfg \in Configs : Constructed(cfg)

Initialize ==
    \E ext \in BOOLEAN, launch \in LaunchOutcomes, open \in BOOLEAN, create \in BOOLEAN :
        /\ CanOpen(open)
        /\ Finish("initialize", IsaacSimEnvironment_initialize(Cur, ext, launch, open, create))
        /\ UNCHANGED scope

Cleanup ==
    \E wclose \in BOOLEAN, sclose \in BOOLEAN, term \in BOOLEAN :
        /\ Finish("cleanup", IsaacSimEnvironment_cleanup(Cur, wclose, sclose, term))
        /\ UNCHANGED scope

StartSimulation ==
    \E ext \in BOOLEAN, launch \in LaunchOutcomes, open \in BOOLEAN,
       create \in BOOLEAN, resp \in Responses :
        /\ CanOpen(open)
        /\ Finish("start_simulation",
                  IsaacSimEnvironment_start_simulation(Cur, ext, launch, open, create, resp))
        /\ UNCHANGED scope

StopSimulation ==
    \E create \in BOOLEAN, resp \in Responses :
        /\ Finish("stop_simulation", IsaacSimEnvironment_stop_simulation(Cur, create, resp))
        /\ UNCHANGED scope

StartStreaming ==
    \E open \in BOOLEAN, send \in BOOLEAN :
        /\ CanOpen(open)
        /\ Finish("start_streaming", IsaacSimEnvironment_start_streaming(Cur, open, send))
        /\ UNCHANGED scope

StopStreaming ==
    \E send \in BOOLEAN :
        /\ Finish("stop_streaming", IsaacSimEnvironment_stop_streaming(Cur, send))
        /\ UNCHANGED scope

GetStatus ==
    \E create \in BOOLEAN, resp \in Responses :
        LET r == IsaacSimEnvironment_get_status(Cur, create, resp) IN
        /\ Finish("get_status", r)
        /\ UNCHANGED scope

BoolRequest ==
    \E method \in BoolRequests, create \in BOOLEAN, resp \in Responses :
        /\ Finish(method, IsaacSimEnvironment_bool_request(Cur, method, create, resp))
        /\ UNCHANGED scope

RawRequest ==
    \E method \in RawRequests, create \in BOOLEAN, resp \in Responses :
        /\ Finish(method, IsaacSimEnvironment_raw_request(Cur, method, create, resp))
        /\ UNCHANGED scope

\* async with env: ... entered
AEnter ==
    /\ scope = "outside"
    /\ \E ext \in BOOLEAN, launch \in LaunchOutcomes, open \in BOOLEAN, create \in BOOLEAN :
        /\ CanOpen(open)
        /\ Finish("__aenter__", IsaacSimEnvironment_aenter(Cur, ext, launch, open, create))
    /\ scope' = "body"

\* async with env: ... left, the body having returned or raised
AExit ==
    /\ scope = "body"
    /\ \E raised \in BOOLEAN, wclose \in BOOLEAN, sclose \in BOOLEAN, term \in BOOLEAN :
        Finish(IF raised THEN "__aexit__(exc)" ELSE "__aexit__",
               IsaacSimEnvironment_aexit(Cur, wclose, sclose, term))
    /\ scope' = "outside"

\* The peer closes the streaming transport.
PeerClose ==
    /\ webrtc_client.websocket = "Open"
    /\ webrtc_client' = [webrtc_client EXCEPT !.websocket = "Closed"]
    /\ op' = "peer_close"
    /\ calls' = <<>>
    /\ pre' = Core(Cur)
    /\ ret' = [v |-> "None", dict |-> NoDict]
    /\ status' = NoStatus
    /\ loop' = IF loop.current THEN [loop EXCEPT !.transport = "Closed"] ELSE loop
    /\ repeat' = FALSE
    /\ UNCHANGED <<is_initialized, simulation_app, rest_client, leaked, connecting, control, scope,
                   config, consumers, received, invoked, streaming>>

Next ==
    \/ Initialize
    \/ Cleanup
    \/ StartSimulation
    \/ StopSimulation
    \/ StartStreaming
    \/ StopStreaming
    \/ GetStatus
    \/ BoolRequest
    \/ RawRequest
    \/ AEnter
    \/ AExit
    \/ PeerClose

Spec == Init /\ [][Next]_vars

\* The lifecycle calls of an environment built from any configuration.
NextConfig ==
    \/ Initialize
    \/ Cleanup
    \/ GetStatus

SpecConfig == InitConfig /\ [][NextConfig]_vars

----------------------------------------------------------------------------
\* The streaming session on its own: WebRTCClient called directly, and the task
\* that runs its receive loop.

\* The history a step that is no orchestrator call leaves.
Step(name, log) ==
    /\ op' = name
    /\ calls' = log
    /\ pre' = Core(Cur)
    /\ ret' = [v |-> "None", dict |-> NoDict]
    /\ status' = NoStatus
    /\ repeat' = FALSE
    /\ UNCHANGED <<is_initialized, simulation_app, rest_client, leaked, connecting, control, scope,
                   config>>

Connect ==
    \E open \in BOOLEAN :
        /\ CanOpen(open)
        /\ Finish("WebRTCClient.connect", WebRTCClient_connect(Cur, open))
        /\ UNCHANGED scope

Disconnect ==
    \E close \in BOOLEAN :
        /\ Finish("WebRTCClient.disconnect", WebRTCClient_disconnect(Cur, close))
        /\ UNCHANGED scope

SessionStartStreaming ==
    \E open \in BOOLEAN, send \in BOOLEAN :
        /\ CanOpen(open)
        /\ Finish("WebRTCClient.start_streaming", WebRTCClient_start_streaming(Cur, open, send))
        /\ UNCHANGED scope

SessionStopStreaming ==
    \E send \in BOOLEAN :
        /\ Finish("WebRTCClient.stop_streaming", WebRTCClient_stop_streaming(Cur, send))
        /\ UNCHANGED scope

\* set_frame_callback(callback), with a callable or None
SetFrameCallback ==
    \E callback \in {"None", "callable"} :
        /\ consumers' = [consumers EXCEPT !.on_frame_callback = callback]
        /\ Step("WebRTCClient.set_frame_callback", <<>>)
        /\ UNCHANGED <<webrtc_client, loop, received, invoked, streaming>>

\* set_audio_callback(callback), with a callable or None
SetAudioCallback ==
    \E callback \in {"None", "callable"} :
        /\ consumers' = [consumers EXCEPT !.on_audio_callback = callback]
        /\ Step("WebRTCClient.set_audio_callback", <<>>)
        /\ UNCHANGED <<webrtc_client, loop, received, invoked, streaming>>

\* What the peer sends: a JSON object tagged frame, audio, status or anything
\* else, JSON that is no object, or text that is no JSON.
Inbound == {"frame", "audio", "status", "other", "non-object", "non-JSON"}

\* json.loads(message): the decoded value, or JSONDecodeError
json_loads(message) ==
    IF message = "non-JSON" THEN [exc |-> TRUE, data |-> "none"]
    ELSE [exc |-> FALSE, data |-> message]

\* _handle_message() that hands status messages to the frame consumer
Mutant_handle_message_status_as_frame(data, cons) ==
    CASE data = "non-object" -> "raise"
      [] data \in {"frame", "status"} ->
            IF cons.on_frame_callback # "None" THEN "on_frame_callback" ELSE "none"
      [] data = "audio" ->
            IF cons.on_audio_callback # "None" THEN "on_audio_callback" ELSE "none"
      [] OTHER -> "none"

\* _handle_message(data): the consumer it awaits, "none" when it only logs or
\* drops the message, "raise" when data has no get()
WebRTCClient_handle_message(data, cons) ==
    CASE data = "non-object" -> "raise"
      [] data = "frame" ->
            IF cons.on_frame_callback # "None" THEN "on_frame_callback" ELSE "none"
      [] data = "audio" ->
            IF cons.on_audio_callback # "None" THEN "on_audio_callback" ELSE "none"
      [] data = "status" -> "none"
      [] OTHER -> "none"

\* the consumer registered for a message of this tag, if the tag has one
Registered(message, cons) ==
    \/ message = "frame" /\ cons.on_frame_callback # "None"
    \/ message = "audio" /\ cons.on_audio_callback # "None"

\* receive_messages() is called: it returns at once when the session is not
\* connected, and otherwise starts to iterate over the transport it holds now.
ReceiveStart ==
    /\ loop.pc = "idle"
    /\ IF ~webrtc_client.is_connected \/ webrtc_client.websocket = "None"
       THEN /\ Step("WebRTCClient.receive_messages", <<"not connected">>)
            /\ UNCHANGED <<loop, received, invoked>>
       ELSE /\ Step("WebRTCClient.receive_messages", <<"async for">>)
            /\ loop' = [pc |-> "reading", transport |-> webrtc_client.websocket,
                        current |-> TRUE]
            /\ received' = <<>>
            /\ invoked' = <<>>
    /\ UNCHANGED <<webrtc_client, consumers, streaming>>

\* `await self.on_..._callback(...)` started without being awaited
Mutant_callback_not_awaited(l, h) == l

\* `await self._handle_message(data)`: the loop is suspended while the consumer
\* h that _handle_message awaits is in flight
WebRTCClient_await_handler(l, h) ==
    IF h \in {"on_frame_callback", "on_audio_callback"}
    THEN [l EXCEPT !.pc = "callback"] ELSE l

\* a failure while handling one message escaping the loop body
Mutant_message_error_ends_loop(l, how) ==
    IF how \in {"JSONDecodeError", "raise", "raised"} THEN IdleLoop
    ELSE [l EXCEPT !.pc = "reading"]

\* The handling of one message ended as `how`: normally, or in one of the two
\* except clauses inside the loop, which only log.  The loop reads on.
WebRTCClient_message_handled(l, how) == [l EXCEPT !.pc = "reading"]

\* The loop reads one message, decodes it and dispatches it; a consumer it
\* awaits is then in flight.
ReceiveMessage ==
    /\ loop.pc = "reading"
    /\ loop.transport = "Open"
    /\ Len(received) < MaxMessages
    /\ \E message \in Inbound :
        LET d == json_loads(message)
            h == IF d.exc THEN "JSONDecodeError"
                 ELSE WebRTCClient_handle_message(d.data, consumers)
            awaited == h \in {"on_frame_callback", "on_audio_callback"}
        IN  /\ received' = Append(received, [type |-> message,
                                              registered |-> Registered(message, consumers)])
            /\ invoked' = IF awaited
                           THEN Append(invoked, [msg |-> Len(received) + 1, consumer |-> h,
                                                 outcome |-> "in flight"])
                           ELSE invoked
            /\ loop' = IF awaited THEN WebRTCClient_await_handler(loop, h)
                        ELSE WebRTCClient_message_handled(loop, h)
            /\ Step("receive_messages: message", <<message, h>>)
    /\ UNCHANGED <<webrtc_client, consumers, streaming>>

\* The consumer in flight returns or raises; either way the loop reads on.
CallbackReturn ==
    /\ loop.pc = "callback"
    /\ \E raised \in BOOLEAN :
        /\ Step("receive_messages: callback", <<IF raised THEN "raise" ELSE "return">>)
        /\ invoked' = [invoked EXCEPT ![Len(invoked)].outcome =
                                          IF raised THEN "raised" ELSE "returned"]
        /\ loop' = WebRTCClient_message_handled(loop, IF raised THEN "raised" ELSE "returned")
    /\ UNCHANGED <<webrtc_client, consumers, received, streaming>>

\* How the iteration over the transport can end: ConnectionClosed raised out of
\* it, the iteration running out on a close the library takes as normal, or any
\* other exception.  The first two need the loop's transport to be closed.
LoopEnds == {"ConnectionClosed", "exhausted", "Exception"}

ReceiveEnd ==
    /\ loop.pc = "reading"
    /\ \E how \in LoopEnds :
        /\ how # "Exception" => loop.transport = "Closed"
        /\ webrtc_client' = IF how = "ConnectionClosed"
                             THEN [webrtc_client EXCEPT !.is_connected = FALSE]
                             ELSE webrtc_client
        /\ Step("receive_messages: returned", <<how>>)
    /\ loop' = IdleLoop
    /\ streaming' = FALSE
    /\ UNCHANGED <<consumers, received, invoked>>

NextStream ==
    \/ Connect
    \/ Disconnect
    \/ SessionStartStreaming
    \/ SessionStopStreaming
    \/ PeerClose
    \/ ReceiveStart
    \/ ReceiveEnd

SpecStream == Init /\ [][NextStream]_vars

NextDispatch ==
    \/ SetFrameCallback
    \/ SetAudioCallback
    \/ Connect
    \/ Disconnect
    \/ PeerClose
    \/ ReceiveStart
    \/ ReceiveMessage
    \/ CallbackReturn
    \/ ReceiveEnd

SpecDispatch == Init /\ [][NextDispatch]_vars

----------------------------------------------------------------------------
\* Connects of the streaming session that overlap: connect(), called directly
\* or by start_streaming(), on a session that is not connected, suspended in
\* websockets.connect() while other tasks of the event loop run.

ConnectSuspend ==
    /\ ~webrtc_client.is_connected
    /\ webrtc_client.websocket # "Open"
    /\ connecting < MaxConnecting
    /\ Finish("WebRTCClient.connect: suspended", WebRTCClient_connect_suspend(Cur))
    /\ UNCHANGED scope

ConnectResume ==
    /\ connecting > 0
    /\ \E open \in BOOLEAN :
        /\ CanOpen(open)
        /\ Finish("WebRTCClient.connect: resumed", WebRTCClient_connect_resume(Cur, open))
    /\ UNCHANGED scope

\* start_streaming() on a session that reports connected: no connect, one send
StartStreamingConnected ==
    /\ webrtc_client.is_connected
    /\ SessionStartStreaming

NextConnect ==
    \/ ConnectSuspend
    \/ ConnectResume
    \/ StartStreamingConnected
    \/ SessionStopStreaming
    \/ Disconnect
    \/ PeerClose

SpecConnect == Init /\ [][NextConnect]_vars

----------------------------------------------------------------------------
\* The control session on its own: RESTClient called directly by tasks of one
\* event loop, which can run while a disconnect() is suspended in close().

ControlEndpoints == {"GET /version", "POST /simulation/stop"}

ControlConnect ==
    \E create \in BOOLEAN :
        /\ Finish("RESTClient.connect", RESTClient_connect(Cur, create))
        /\ UNCHANGED scope

\* disconnect() whose close() completes, or raises, without suspending
ControlDisconnect ==
    \E close \in BOOLEAN :
        /\ Finish("RESTClient.disconnect", RESTClient_disconnect(Cur, close))
        /\ UNCHANGED scope

ControlDisconnectSuspend ==
    /\ rest_client.session # "None"
    /\ control.closing < MaxClosing
    /\ Finish("RESTClient.disconnect: suspended", RESTClient_disconnect_suspend(Cur))
    /\ UNCHANGED scope

ControlDisconnectResume ==
    /\ control.closing > 0
    /\ rest_client.session = "Open" => control.orphaned < MaxOrphaned
    /\ Finish("RESTClient.disconnect: resumed", RESTClient_disconnect_resume(Cur))
    /\ UNCHANGED scope

ControlRequest ==
    \E endpoint \in ControlEndpoints, create \in BOOLEAN, resp \in Responses :
        /\ Finish("RESTClient._make_request",
                  RESTClient_make_request(Cur, endpoint, create, resp))
        /\ UNCHANGED scope

NextControl ==
    \/ ControlConnect
    \/ ControlDisconnect
    \/ ControlDisconnectSuspend
    \/ ControlDisconnectResume
    \/ ControlRequest

SpecControl == Init /\ [][NextControl]_vars

----------------------------------------------------------------------------
\* The process controller: SimulationApp called directly, and through the
\* orchestrator's initialize() and cleanup(), with the simulator free to exit.

ProcessStart ==
    \E ext \in BOOLEAN, launch \in LaunchOutcomes :
        /\ Finish("SimulationApp.start", SimulationApp_start(Cur, ext, launch))
        /\ UNCHANGED scope

ProcessStop ==
    \E term \in BOOLEAN :
        /\ Finish("SimulationApp.stop", SimulationApp_stop(Cur, term))
        /\ UNCHANGED scope

ProcessRestart ==
    \E term \in BOOLEAN, ext \in BOOLEAN, launch \in LaunchOutcomes :
        /\ Finish("SimulationApp.restart", SimulationApp_restart(Cur, term, ext, launch))
        /\ UNCHANGED scope

\* with app: entered
ProcessEnter ==
    \E ext \in BOOLEAN, launch \in LaunchOutcomes :
        /\ Finish("SimulationApp.__enter__", SimulationApp_enter(Cur, ext, launch))
        /\ UNCHANGED scope

\* with app: left
ProcessLeave ==
    \E term \in BOOLEAN :
        /\ Finish("SimulationApp.__exit__", SimulationApp_stop(Log(Cur, "sim.__exit__"), term))
        /\ UNCHANGED scope

ProcessGetStatus ==
    /\ Finish("SimulationApp.get_status",
              [Return(Log(Cur, "sim.get_status"), "dict") EXCEPT
                  !.status = [NoStatus EXCEPT !.simulation_app = SimulationApp_get_status(Cur)]])
    /\ UNCHANGED scope

\* The launched simulator exits by itself; the controller is not told.
SimulatorExits ==
    /\ simulation_app.process = "Alive"
    /\ Finish("simulator exits", Return([Cur EXCEPT !.simulation_app.process = "Exited"], "None"))
    /\ UNCHANGED scope

NextProcess ==
    \/ ProcessStart
    \/ ProcessStop
    \/ ProcessRestart
    \/ ProcessEnter
    \/ ProcessLeave
    \/ ProcessGetStatus
    \/ SimulatorExits
    \/ Initialize
    \/ Cleanup

SpecProcess == Init /\ [][NextProcess]_vars

----------------------------------------------------------------------------
\* Reading the history of the last call

\* the last call made this subsystem or external call
Has(what) == \E i \in DOMAIN calls : calls[i] = what

\* the state a freshly constructed environment is in
InitialCore == [is_initialized |-> FALSE,
                simulation_app |-> [is_running |-> FALSE, process |-> "None"],
                webrtc_client |-> [is_connected |-> FALSE, websocket |-> "None"],
                rest_client |-> [session |-> "None"]]

\* the last call was cleanup(), called directly
AfterCleanup == op = "cleanup"
\* the last call left the managed scope
AfterExit == op \in {"__aexit__", "__aexit__(exc)"}

----------------------------------------------------------------------------
\* C1: cleanup() attempts StreamingSession.disconnect(), ControlSession.disconnect()
\* and ProcessController.stop(), whichever of them raise, does not raise itself
\* and ends with is_initialized == false.
C1_CleanupAttemptsEveryStep ==
    AfterCleanup =>
        /\ Has("webrtc.disconnect") /\ Has("rest.disconnect") /\ Has("sim.stop")
        /\ ret.v # "raised"
        /\ is_initialized = FALSE

\* C2: after the managed scope is left (the body having returned or raised,
\* initialize() having succeeded or not), cleanup() has run, is_initialized is
\* false, the process controller is not running, the streaming session is
\* Disconnected and the control session holds no connection.
C2_ScopeExitReleasesEverything ==
    AfterExit =>
        /\ Has("webrtc.disconnect")
        /\ is_initialized = FALSE
        /\ simulation_app.is_running = FALSE
        /\ webrtc_client.is_connected = FALSE
        /\ rest_client.session = "None"

\* C3: in every initialize()/cleanup() cycle, an initialize() that returns true
\* leaves is_initialized true, and the cleanup() that follows leaves it false
\* with the three subsystems back in their initial state, so that nothing of the
\* cycle is left for the next initialize().
C3_CleanupRestoresInitialState ==
    /\ (op = "initialize" /\ ret.v = "True") => is_initialized = TRUE
    /\ (AfterCleanup /\ pre.is_initialized) => Core(Cur) = InitialCore

\* C4: cleanup() never raises and leaves is_initialized == false in every
\* state, and a cleanup() that directly follows a cleanup() changes no state.
C4_CleanupIdempotent ==
    [][op' = "cleanup" =>
          /\ ret'.v # "raised"
          /\ is_initialized' = FALSE
          /\ (op = "cleanup" => Core(Cur)' = Core(Cur))]_vars

\* C5: when ProcessController.start() fails during initialize(), initialize()
\* returns false, is_initialized is false, and neither the streaming connect
\* nor the control connect is attempted.
C5_FailedStartAborts ==
    (op = "initialize" /\ Has("sim.start=False")) =>
        /\ ret.v = "False"
        /\ is_initialized = FALSE
        /\ ~Has("webrtc.connect") /\ ~Has("websockets.connect")
        /\ ~Has("rest.connect") /\ ~Has("ClientSession")

\* the launched process had exited at the probe, and initialize() gave up
C5_Witness ==
    /\ op = "initialize" /\ Has("sim.start=False")
    /\ Has("Popen") /\ simulation_app.process = "Exited"
    /\ ret.v = "False"

\* C6: initialize() never raises; an exception in a step makes it return
\* false; when it returns false it has not changed is_initialized; when it has
\* set is_initialized, the process start returned true and the control connect
\* completed.
C6_InitializeNeverRaises ==
    op = "initialize" =>
        /\ ret.v \in {"True", "False"}
        /\ (Has("ClientSession") /\ rest_client.session = "None") => ret.v = "False"
        /\ ret.v = "False" => is_initialized = pre.is_initialized
        /\ ret.v = "True" =>
              /\ is_initialized = TRUE
              /\ Has("sim.start=True") /\ simulation_app.is_running
              /\ Has("rest.connect") /\ rest_client.session = "Open"

\* the control connect raised inside initialize() and was turned into False
C6_Witness ==
    /\ op = "initialize" /\ ret.v = "False"
    /\ Has("sim.start=True") /\ Has("ClientSession") /\ Has("raise")
    /\ rest_client.session = "None"
    /\ is_initialized = FALSE

C8_StartSimulationLazyInit ==
    (op = "start_simulation" /\ ~pre.is_initialized) =>
        /\ Len(calls) > 0 /\ calls[1] = "sim.start"
        /\ IF is_initialized
           THEN /\ Has("POST /simulation/start")
                /\ ret.v \in {"True", "False"}
                /\ (ret.v = "True") <=> ~HasError(ret.dict)
           ELSE /\ ret.v = "False"
                /\ ~Has("rest.request") /\ ~Has("POST /simulation/start")

\* a start_simulation() on an uninitialized environment that went through
C8_Witness ==
    /\ op = "start_simulation" /\ ~pre.is_initialized
    /\ is_initialized /\ ret.v = "True"
    /\ Has("status 200")

\* C9: stop_simulation() called while is_initialized is false calls
\* initialize() before it delegates: the stop request is never made by an
\* uninitialized orchestrator, and a failing initialize() means false and no
\* request.
C9_StopSimulationLazyInit ==
    (op = "stop_simulation" /\ ~pre.is_initialized) =>
        /\ Has("sim.start")
        /\ Has("POST /simulation/stop") => is_initialized
        /\ ~is_initialized => (ret.v = "False" /\ ~Has("rest.request"))

\* C10: get_status() never raises and returns is_initialized and the three
\* subsystem snapshots; it asks the control session for the simulation status
\* exactly when is_initialized is true, the snapshot has a simulation_status
\* entry exactly then, and a fetch that fails is an error value in that entry.
C10_GetStatusAlwaysAvailable ==
    op = "get_status" =>
        /\ ret.v = "dict"
        /\ {"is_initialized", "simulation_app", "webrtc_client", "rest_client"}
               \subseteq status.keys
        /\ status.is_initialized = is_initialized
        /\ status.simulation_app.is_running = pre.simulation_app.is_running
        /\ status.webrtc_client.is_connected = pre.webrtc_client.is_connected
        /\ status.rest_client.session_active = (pre.rest_client.session # "None")
        /\ Has("rest.request") <=> is_initialized
        /\ ("simulation_status" \in status.keys) <=> is_initialized
        /\ (Has("raise") \/ Has("status 500")) => HasError(status.simulation_status)

\* a get_status() whose remote fetch failed and shows as an embedded error
C10_Witness ==
    /\ op = "get_status" /\ is_initialized
    /\ Has("raise")
    /\ "simulation_status" \in status.keys
    /\ HasError(status.simulation_status)

\* C11: whenever the body of the managed scope starts to run, is_initialized is
\* true: __aenter__ hands the caller an environment that is Ready.
C11_ScopeBodyIsReady ==
    op = "__aenter__" => (scope = "body" /\ is_initialized = TRUE)

\* C12: for a configuration with top-level host H, webrtc_port W and rest_port
\* R, get_status() on a freshly constructed environment reports is_initialized
\* false, no running process, no streaming or control connection, and every
\* subsystem snapshot echoes streaming port W and control port R.
C12_FreshStatusEchoesPorts ==
    (/\ op = "get_status"
     /\ pre = InitialCore
     /\ {"host", "webrtc_port", "rest_port"} \subseteq config.keys)
    => /\ status.is_initialized = FALSE
       /\ ~status.simulation_app.is_running
       /\ "pid" \notin status.simulation_app.keys
       /\ ~status.webrtc_client.is_connected
       /\ ~status.rest_client.session_active
       /\ status.simulation_app.webrtc_port = config.webrtc_port
       /\ status.simulation_app.rest_port = config.rest_port
       /\ status.webrtc_client.port = config.webrtc_port
       /\ status.webrtc_client.host = config.host
       /\ status.rest_client.port = config.rest_port
       /\ status.rest_client.host = config.host

\* C13: in every reachable state of the streaming session, under any
\* interleaving of connect(), disconnect(), start_streaming(), stop_streaming()
\* and the receive loop (the peer closing the transport included), streaming
\* implies connected.
C13_StreamingImpliesConnected ==
    streaming => webrtc_client.is_connected

\* C14: connect() called on a session that is already connected returns true
\* without opening a second transport and leaves the transport handle as it
\* was, so that no open transport is ever left unreferenced.
C14_ConnectIdempotent ==
    /\ leaked = 0
    /\ (op = "WebRTCClient.connect" /\ pre.webrtc_client.is_connected)
       => /\ ret.v = "True"
          /\ ~Has("websockets.connect")
          /\ webrtc_client = pre.webrtc_client

\* C15: disconnect() leaves the session Disconnected from every state: after it
\* returns the connected flag is false, no transport handle is held, and a
\* transport that was held has been closed.
C15_DisconnectLeavesDisconnected ==
    (op = "WebRTCClient.disconnect" /\ ret.v # "raised")
    => /\ ~webrtc_client.is_connected
       /\ webrtc_client.websocket = "None"
       /\ ~streaming
       /\ pre.webrtc_client.websocket # "None" => Has("websocket.close")

\* a disconnect() of a connected session with an open transport
C15_Witness ==
    /\ op = "WebRTCClient.disconnect" /\ ret.v = "None"
    /\ pre.webrtc_client = [is_connected |-> TRUE, websocket |-> "Open"]
    /\ Has("websocket.close")
    /\ webrtc_client = [is_connected |-> FALSE, websocket |-> "None"]

\* the session was connected when the last start_streaming() came to send
ConnectedAtSend == pre.webrtc_client.is_connected \/ Has("webrtc.connect=True")

\* C16: start_streaming() called while Disconnected first calls connect(); if
\* that fails it returns false, sends no begin-streaming message and leaves the
\* session Disconnected; it returns true only with the session connected, and
\* the begin-streaming message is never sent while the session is not connected.
C16_StreamingOnlyThroughConnect ==
    op = "WebRTCClient.start_streaming"
    => /\ ~pre.webrtc_client.is_connected
          => (Len(calls) >= 2 /\ calls[2] = "webrtc.connect")
       /\ Has("webrtc.connect=False")
          => (ret.v = "False" /\ ~Has("start_streaming")
              /\ ~webrtc_client.is_connected /\ ~streaming)
       /\ Has("start_streaming") => (ConnectedAtSend /\ webrtc_client.is_connected)
       /\ ret.v = "True" => (ConnectedAtSend /\ webrtc_client.is_connected)
       /\ streaming => ret.v = "True"

\* a start_streaming() on a disconnected session whose connect() failed
C16_Witness ==
    /\ op = "WebRTCClient.start_streaming"
    /\ ~pre.webrtc_client.is_connected
    /\ Has("webrtc.connect=False")
    /\ ret.v = "False"

\* C17: start_streaming() returns true whenever the session is connected when
\* it comes to send (it was connected, or connect() just succeeded), whether or
\* not the send succeeds: a send failure gives neither false nor an exception.
C17_SendFailureStillTrue ==
    (op = "WebRTCClient.start_streaming" /\ ConnectedAtSend)
    => (ret.v = "True" /\ Has("start_streaming"))

\* a start_streaming() whose send raised
C17_Witness ==
    /\ op = "WebRTCClient.start_streaming"
    /\ Has("start_streaming")
    /\ calls[Len(calls)] = "raise"
    /\ ret.v = "True"

\* the transports the session has opened that are still open
OpenTransports == leaked + (IF webrtc_client.websocket = "Open" THEN 1 ELSE 0)

\* C18: after the second of two start_streaming() calls in a row, from any
\* state, at most one transport the session has opened is still open, and the
\* second call performed no connect when the first left the session connected.
C18_StartStreamingTwice ==
    (repeat /\ op = "WebRTCClient.start_streaming")
    => /\ OpenTransports <= 1
       /\ pre.webrtc_client.is_connected => ~Has("websockets.connect")

\* C19: stop_streaming() never changes the connection state or closes the
\* transport: on a connected session it sends one end-streaming message and
\* leaves the session connected with the same transport; on a disconnected one
\* it sends nothing and changes nothing.
C19_StopStreamingKeepsConnection ==
    [][op' = "WebRTCClient.stop_streaming"
       => /\ webrtc_client' = webrtc_client
          /\ leaked' = leaked
          /\ loop' = loop
          /\ ret'.v = "None"
          /\ \A i \in DOMAIN calls' :
                calls'[i] \notin {"websocket.close", "websockets.connect", "webrtc.disconnect"}
          /\ webrtc_client.is_connected
             => Cardinality({i \in DOMAIN calls' : calls'[i] = "stop_streaming"}) = 1
          /\ ~webrtc_client.is_connected
             => calls' = <<"webrtc.stop_streaming">>]_vars

\* a stop_streaming() on a streaming session, which stays connected
C19_Witness ==
    /\ op = "WebRTCClient.stop_streaming"
    /\ pre.webrtc_client = [is_connected |-> TRUE, websocket |-> "Open"]
    /\ Has("stop_streaming")
    /\ webrtc_client = pre.webrtc_client

\* the invocations the receive loop made for its i-th message
Invocations(i) == {j \in DOMAIN invoked : invoked[j].msg = i}

\* C20: for every sequence of inbound messages the receive loop processes, with
\* the consumers registered, the frame consumer is invoked exactly once per
\* message tagged frame, the audio consumer exactly once per message tagged
\* audio, and no consumer for a message tagged status or anything else.
C20_DispatchByTag ==
    \A i \in DOMAIN received :
        LET m == received[i] IN
        /\ (m.type = "frame" /\ m.registered)
           => /\ Cardinality(Invocations(i)) = 1
              /\ \A j \in Invocations(i) : invoked[j].consumer = "on_frame_callback"
        /\ (m.type = "audio" /\ m.registered)
           => /\ Cardinality(Invocations(i)) = 1
              /\ \A j \in Invocations(i) : invoked[j].consumer = "on_audio_callback"
        /\ m.type \in {"status", "other"} => Invocations(i) = {}

\* a run of the loop that has dispatched a frame and an audio message, each to
\* its consumer
C20_Witness ==
    /\ consumers = [on_frame_callback |-> "callable", on_audio_callback |-> "callable"]
    /\ \E i, j \in DOMAIN received :
        /\ received[i] = [type |-> "frame", registered |-> TRUE]
        /\ received[j] = [type |-> "audio", registered |-> TRUE]
    /\ Len(invoked) = 2

\* the consumer invocations that have not completed
InFlight == {j \in DOMAIN invoked : invoked[j].outcome = "in flight"}

\* C21: consumer invocations are strictly sequential and in arrival order: at
\* most one callback is in flight, the loop has read no message after the one
\* whose callback is in flight, and invocations are ordered as their messages
\* were received, also while control-plane calls interleave with the loop.
C21_CallbacksSequentialInOrder ==
    /\ Cardinality(InFlight) <= 1
    /\ \A j \in InFlight :
        /\ j = Len(invoked)
        /\ invoked[j].msg = Len(received)
        /\ loop.pc = "callback"
    /\ \A j, k \in DOMAIN invoked : j < k => invoked[j].msg < invoked[k].msg

\* a control-plane call made while the second callback of a run is in flight
C21_Witness ==
    /\ op = "WebRTCClient.disconnect"
    /\ Len(invoked) = 2
    /\ invoked[1].outcome # "in flight"
    /\ invoked[2].outcome = "in flight"

\* C22: whenever the receive loop ends because of the transport (closed, or any
\* other transport error) the session is Disconnected afterwards.
C22_LoopEndDisconnects ==
    op = "receive_messages: returned" => ~webrtc_client.is_connected

\* the handling of message i failed: it did not decode, or its consumer raised
HandlingFailed(i) ==
    \/ received[i].type \in {"non-JSON", "non-object"}
    \/ \E j \in Invocations(i) : invoked[j].outcome = "raised"

\* C23: a failure while handling one message is not fatal to the loop: after a
\* message that does not decode, or a consumer that raises, the loop reads on
\* with the session state untouched, and every later message is dispatched.
C23_HandlingFailureNotFatal ==
    /\ (/\ op = "receive_messages: message"
        /\ calls[2] \in {"JSONDecodeError", "raise"})
       => (loop.pc = "reading" /\ webrtc_client = pre.webrtc_client)
    /\ op = "receive_messages: callback"
       => (loop.pc = "reading" /\ webrtc_client = pre.webrtc_client)
    /\ \A i \in DOMAIN received :
        (/\ received[i].registered
         /\ \E k \in DOMAIN received : k < i /\ HandlingFailed(k))
        => Invocations(i) # {}

\* a message that did not decode, then a frame whose consumer raised, and the
\* loop reading on, still connected
C23_Witness ==
    /\ op = "receive_messages: callback"
    /\ Len(received) = 2
    /\ received[1].type = "non-JSON"
    /\ received[2] = [type |-> "frame", registered |-> TRUE]
    /\ invoked[1].outcome = "raised"
    /\ loop.pc = "reading"
    /\ webrtc_client.is_connected

\* the live sessions of the control session, referenced or not
LiveConnections ==
    control.orphaned + (IF rest_client.session = "Open" THEN 1 ELSE 0)

\* how often the last call made this subsystem or external call
Times(what) == Cardinality({i \in DOMAIN calls : calls[i] = what})

\* C24: a ControlSession holds at most one live connection across any
\* interleaving of connect(), disconnect() and request(): connect() while
\* active creates nothing, request() while inactive creates exactly one
\* connection, disconnect() releases the connection exactly once and leaves the
\* session inactive, and a second disconnect() does nothing.
C24_AtMostOneLiveConnection ==
    /\ LiveConnections <= 1
    /\ (op = "RESTClient.connect" /\ pre.rest_client.session # "None")
       => Times("ClientSession") = 0
    /\ (op = "RESTClient._make_request" /\ pre.rest_client.session = "None")
       => Times("ClientSession") = 1
    /\ op \in {"RESTClient.disconnect", "RESTClient.disconnect: resumed"}
       => rest_client.session = "None"
    /\ Has("session.close") => pre.rest_client.session = "Open"
    /\ (op = "RESTClient.disconnect" /\ pre.rest_client.session = "None")
       => (calls = <<"rest.disconnect">> /\ rest_client = pre.rest_client)

\* C25: request() connects lazily and reports every failure uniformly: status
\* other than 200 gives {error: "HTTP <status>"}, a transport or decode
\* exception gives {error: <text>}, a decodable 200 body is returned unchanged;
\* both failure forms have the key error and leave the session active.
C25_RequestReportsUniformly ==
    op = "RESTClient._make_request" =>
        /\ ret.v = "dict"
        /\ pre.rest_client.session = "None" => Times("ClientSession") = 1
        /\ Has("status 500") => ret.dict = ErrorDict(HttpReason(500))
        /\ Has("raise") => HasError(ret.dict)
        /\ Has("status 200") => ret.dict \in {r.body : r \in Responses}
        /\ (Has("status 500") \/ Has("raise")) => rest_client.session # "None"

\* C26: no public ControlSession call raises, whatever the connection resource
\* does, including at the lazy connect and at close.
C26_ControlNeverRaises ==
    op \in {"RESTClient.connect", "RESTClient.disconnect", "RESTClient._make_request"}
        => ret.v # "raised"

\* C27: start() launches a process only when the controller is not running and
\* no external instance is detected: while running, and when an external
\* instance is detected, it returns true with running set and launches nothing;
\* no call launches twice, and none launches over a live handle, so a running
\* period sees at most one launch.
C27_StartLaunchesOnlyWhenNeeded ==
    /\ \A ext \in BOOLEAN, launch \in LaunchOutcomes :
        LET r == SimulationApp_start(Cur, ext, launch)
            launches == {i \in DOMAIN r.s.calls : r.s.calls[i] = "Popen"}
        IN  /\ (simulation_app.is_running \/ ext)
               => /\ r.v = "True"
                  /\ launches = {}
                  /\ r.s.simulation_app.is_running
                  /\ r.s.simulation_app.process = simulation_app.process
            /\ launches # {} => (~simulation_app.is_running /\ ~ext)
            /\ Cardinality(launches) <= 1
    /\ simulation_app.process = "Alive" => simulation_app.is_running
    /\ (op = "SimulationApp.start" /\ Has("Popen")) => ~pre.simulation_app.is_running

\* start() called on a controller that runs an adopted external instance
C27_Witness ==
    /\ op = "SimulationApp.start"
    /\ pre.simulation_app = [is_running |-> TRUE, process |-> "None"]
    /\ ret.v = "True"
    /\ ~Has("Popen")
    /\ simulation_app = pre.simulation_app

\* C28: start() fails without raising and without retrying: when the launch
\* raises or the launched process has exited at the probe, it returns false,
\* running stays false, and that call made exactly one launch attempt.
C28_StartFailsOnceQuietly ==
    /\ \A launch \in {"raise", "exited"} :
        LET r == SimulationApp_start(Cur, FALSE, launch) IN
        ~simulation_app.is_running
        => /\ ~r.exc
           /\ r.v = "False"
           /\ ~r.s.simulation_app.is_running
           /\ Cardinality({i \in DOMAIN r.s.calls : r.s.calls[i] = "Popen"}) = 1
    /\ (op = "SimulationApp.start" /\ ret.v # "True")
       => (ret.v = "False" /\ ~simulation_app.is_running /\ Times("Popen") = 1)

\* a start() whose launched process had exited at the probe
C28_Witness ==
    /\ op = "SimulationApp.start"
    /\ ret.v = "False"
    /\ Times("Popen") = 1
    /\ ~Has("raise")
    /\ simulation_app = [is_running |-> FALSE, process |-> "Exited"]

\* C29: stop() is idempotent and complete: wherever the controller reports
\* running (launched or adopted) it requests termination, waits and clears the
\* handle; afterwards running is false and no handle is held; stop() while not
\* running changes nothing.
C29_StopCompleteAndIdempotent ==
    op = "SimulationApp.stop" =>
        /\ pre.simulation_app.is_running => Has("terminate")
        /\ simulation_app = [is_running |-> FALSE, process |-> "None"]
        /\ ~pre.simulation_app.is_running => simulation_app = pre.simulation_app

\* in the last call, every call a was made before every call b
Before(a, b) ==
    \A i, j \in DOMAIN calls : (calls[i] = a /\ calls[j] = b) => i < j

\* C30 as stated: in every execution of initialize() the control session's
\* connect happens after the process start and before the streaming session's
\* connect attempt.
C30_ControlBeforeStreaming ==
    (op = "initialize" /\ Has("webrtc.connect"))
    => /\ Has("rest.connect")
       /\ Before("sim.start", "rest.connect")
       /\ Before("rest.connect", "webrtc.connect")

\* C30: initialize() brings the subsystems up in the order ProcessController,
\* StreamingSession, ControlSession: the streaming connect attempt happens
\* after the process start and before the control session's connect, both are
\* made whenever the start succeeds, and neither is made when it fails.
C30_StreamingBeforeControl ==
    (op = "initialize" \/ Has("sim.start"))
    => /\ Has("sim.start")
       /\ Before("sim.start", "webrtc.connect")
       /\ Before("webrtc.connect", "rest.connect")
       /\ Has("sim.start=True") <=> Has("webrtc.connect")
       /\ Has("sim.start=True") <=> Has("rest.connect")

\* an initialize() that made both connects, the streaming one succeeding
C30_Witness ==
    /\ op = "initialize"
    /\ Has("webrtc.connect=True")
    /\ Has("rest.connect")
    /\ Has("ClientSession")
    /\ ret.v = "True"

\* the calls that run cleanup()
CleanupOps == {"cleanup", "__aexit__", "__aexit__(exc)"}

C32_UninitializedUsesNothing ==
    /\ (/\ ~pre.is_initialized
        /\ op \notin {"__init__", "initialize", "__aenter__"}
        /\ ~Has("sim.start"))
       => (/\ ~Has("ClientSession")
           /\ ~Has("websockets.connect")
           /\ ~Has("rest.request"))
    /\ ~is_initialized
       => (rest_client.session = "None" /\ ~webrtc_client.is_connected)

\* C33: a process handle is held only while running: after a start() that
\* returns false no handle is held and get_status() reports neither a pid nor
\* an exit code.
C33_HandleImpliesRunning ==
    /\ simulation_app.process # "None" => simulation_app.is_running
    /\ (op = "SimulationApp.start" /\ ret.v = "False")
       => (/\ simulation_app.process = "None"
           /\ SimulationApp_get_status(Cur).keys \cap {"pid", "returncode"} = {})

\* C34: stopping the receive loop by closing the transport always takes
\* effect: a disconnect() that closes the session's transport while the loop is
\* running closes the transport the loop reads from, so that its next read ends
\* it, and the loop dispatches no message read from a closed transport.
C34_ClosedTransportStopsLoop ==
    /\ (/\ op = "WebRTCClient.disconnect"
        /\ Has("websocket.close")
        /\ ~Has("raise")
        /\ loop.pc # "idle")
       => loop.transport = "Closed"
    /\ op = "receive_messages: message" => loop.transport = "Open"

\* C35: get_status() is read-only: it leaves is_initialized, the process
\* controller, the streaming session and the control session as they were, and
\* never creates a control connection.
C35_GetStatusReadOnly ==
    op = "get_status" => Core(Cur) = pre

\* C36: a failed initialize() leaves nothing half-started: when it returns
\* false every subsystem is in the state it had before the call, and no
\* process or connection that call started remains.
C36_FailedInitializeRollsBack ==
    (op = "initialize" /\ ret.v = "False")
    => /\ ~is_initialized
       /\ simulation_app = pre.simulation_app
       /\ webrtc_client = pre.webrtc_client
       /\ rest_client = pre.rest_client

\* C37: interleaved connects do not leak a transport: when connect() or
\* start_streaming() calls made on a Disconnected session overlap at their
\* suspension points, then once they have finished at most one streaming
\* transport is open and no open transport is unreferenced.
C37_InterleavedConnectsDoNotLeak ==
    connecting = 0 => (OpenTransports <= 1 /\ leaked = 0)

====
